---- MODULE Spec2Model ----
(***************************************************************************)
(* babel-plugin-jest-hoist (packages/babel-plugin-jest-hoist/src/index.ts) *)
(*                                                                         *)
(* The plugin as a state machine over an abstract syntax tree:             *)
(*   - the visit phase (visitor.ExpressionStatement) rewrites the root of  *)
(*     every hoistable call chain into a call of the getter;               *)
(*   - the post phase runs visitBlock on the program and on every nested   *)
(*     BlockStatement, moving getter calls and marked declarators to the   *)
(*     front of their block.                                               *)
(*                                                                         *)
(* The tree: `body[b]` is the statement list of block b; block 0 is the    *)
(* Program, every other block is the body of a BlockStatement that is a    *)
(* statement of its parent block.  Scope analysis, purity and import       *)
(* provenance are answers of Babel and are attributes of the nodes.        *)
(* Identifier names are tuples of characters, so that the two regular      *)
(* expressions of FUNCTIONS.mock are computed, not assumed.                *)
(***************************************************************************)
EXTENDS Integers, Sequences, FiniteSets, TLC

VARIABLES
  body,                     \* block id -> sequence of statements
  hoistedVariables,         \* ids of the declarators in the WeakSet
  jestObjGetterIdentifier,  \* name of the getter identifier, <<>> when unset
  pc,                       \* "visit" | "post" | "traverse" | "done" | "error"
  error,                    \* the error thrown, NoError when none
  todo,                     \* ExpressionStatement paths the visitor still has to visit
  blocksLeft,               \* blocks visitBlock still has to be called on
  block,                    \* the block visitBlock is running on
  queue,                    \* nodes block.traverse still has to visit
  hoistPoints,              \* [vars, calls]: ids of the two EmptyStatements
  nextId,                   \* next fresh node id
  run,                      \* which run of the transform this is
  input,                    \* history: the tree at the start of this run
  preHoist,                 \* history: the tree at the start of post
  marks,                    \* history: <<statement id, declarator id>> pairs marked in this run
  rewritten,                \* history: ids of the statements rewritten in this run
  thrower,                  \* history: id of the statement whose visit threw
  firstOutput               \* history: the tree at the end of the first run

vars == <<body, hoistedVariables, jestObjGetterIdentifier, pc, error, todo,
          blocksLeft, block, queue, hoistPoints, nextId, run, input, preHoist,
          marks, rewritten, thrower, firstOutput>>

-----------------------------------------------------------------------------
(* Bounds of the model. *)

MaxBody == 3
MaxNested == 2
MaxRuns == 2

-----------------------------------------------------------------------------
(* Names. *)

JEST_GLOBAL_NAME == <<"j", "e", "s", "t">>
JEST_GLOBALS_MODULE_JEST_EXPORT_NAME == <<"j", "e", "s", "t">>

NameX == <<"x">>
NameA == <<"a">>
NameJ == <<"j">>
NameObj == <<"o", "b", "j">>
NameFoo == <<"f", "o", "o">>
NameMockFoo == <<"m", "o", "c", "k", "F", "o", "o">>
NameMOCKBar == <<"M", "O", "C", "K", "b">>
NameAmock == <<"a", "m", "o", "c", "k">>
NameCov == <<"c", "o", "v", "_", "1">>
NameUUCov == <<"_", "_", "c", "o", "v">>
NameUCov == <<"_", "c", "o", "v">>
NameMath == <<"M", "a", "t", "h">>
NameRequire == <<"r", "e", "q", "u", "i", "r", "e">>

\* The members of the allow-list that the inputs of the model use.
ALLOWED_IDENTIFIERS == {NameMath, NameRequire, JEST_GLOBAL_NAME}

ToLowerCase(c) ==
  CASE c = "M" -> "m" [] c = "O" -> "o" [] c = "C" -> "c" [] c = "K" -> "k"
    [] c = "F" -> "f" [] OTHER -> c

StartsWith(name, prefix) ==
  /\ Len(name) >= Len(prefix)
  /\ \A i \in 1..Len(prefix) : name[i] = prefix[i]

\* /^mock/i
TestMockPrefix(name) ==
  StartsWith([i \in 1..Len(name) |-> ToLowerCase(name[i])], <<"m", "o", "c", "k">>)

\* /^(?:__)?cov/
TestCoverage(name) ==
  \/ StartsWith(name, <<"c", "o", "v">>)
  \/ StartsWith(name, <<"_", "_", "c", "o", "v">>)

GetterBase == <<"_", "g", "e", "t", "J", "e", "s", "t", "O", "b", "j">>

-----------------------------------------------------------------------------
(* Nodes. *)

NoError == [kind |-> "none", name |-> <<>>]
NoExpr == [root |-> [type |-> "None", name |-> <<>>, hasBinding |-> FALSE,
                     refsNamed |-> FALSE, computed |-> FALSE,
                     objRefsWildcard |-> FALSE, property |-> <<>>],
           links |-> <<>>]

Stmt(id, type, expr, kind, decls, blk, fn, name) ==
  [id |-> id, type |-> type, expr |-> expr, kind |-> kind, declarations |-> decls,
   block |-> blk, fnBody |-> fn, name |-> name]

ExpressionStatement(id, e) == Stmt(id, "ExpressionStatement", e, "", <<>>, 0, FALSE, <<>>)
\* `if (c) <expression statement>`: the expression statement's parent is no block
IfStatement(id, e) == Stmt(id, "IfStatement", e, "", <<>>, 0, FALSE, <<>>)
variableDeclaration(id, kind, decls) ==
  Stmt(id, "VariableDeclaration", NoExpr, kind, decls, 0, FALSE, <<>>)
\* a statement that holds the BlockStatement whose body is block b; fn: the
\* block is a function body (so `var` stays in its scope)
BlockStatement(id, b, fn) == Stmt(id, "BlockStatement", NoExpr, "", <<>>, b, fn, <<>>)
FunctionDeclaration(id, name) ==
  Stmt(id, "FunctionDeclaration", NoExpr, "", <<>>, 0, FALSE, name)
emptyStatement(id) == Stmt(id, "EmptyStatement", NoExpr, "", <<>>, 0, FALSE, <<>>)
OtherStatement(id) == Stmt(id, "Other", NoExpr, "", <<>>, 0, FALSE, <<>>)

VariableDeclarator(id, name, init, pure, reassigned) ==
  [id |-> id, name |-> name, init |-> init, pure |-> pure, reassigned |-> reassigned]

Identifier(name, hasBinding, refsNamed) ==
  [type |-> "Identifier", name |-> name, hasBinding |-> hasBinding,
   refsNamed |-> refsNamed, computed |-> FALSE, objRefsWildcard |-> FALSE,
   property |-> <<>>]
MemberExpression(computed, objRefsWildcard, property) ==
  [type |-> "MemberExpression", name |-> <<>>, hasBinding |-> FALSE,
   refsNamed |-> FALSE, computed |-> computed,
   objRefsWildcard |-> objRefsWildcard, property |-> property]
\* a call of an identifier with no arguments: `name()`
callExpression(name) ==
  [type |-> "CallExpression", name |-> name, hasBinding |-> FALSE,
   refsNamed |-> FALSE, computed |-> FALSE, objRefsWildcard |-> FALSE,
   property |-> <<>>]

Arg(type, refs) == [type |-> type, refs |-> refs]
Ref(name, inner) == [name |-> name, inner |-> inner]
Link(computed, property, args) ==
  [computed |-> computed, property |-> property, args |-> args]

-----------------------------------------------------------------------------
(* Tree queries. *)

Blocks(tree) == DOMAIN tree

Range(s) == {s[i] : i \in 1..Len(s)}

RECURSIVE Concat(_)
Concat(ss) == IF ss = <<>> THEN <<>> ELSE Head(ss) \o Concat(Tail(ss))

\* the block whose body holds the BlockStatement of block b (0 for the Program)
ParentBlock(tree, b) ==
  IF \E p \in Blocks(tree) : \E s \in Range(tree[p]) :
        s.type = "BlockStatement" /\ s.block = b
  THEN CHOOSE p \in Blocks(tree) : \E s \in Range(tree[p]) :
        s.type = "BlockStatement" /\ s.block = b
  ELSE 0

BlockIsFunctionBody(tree, b) ==
  \E p \in Blocks(tree) : \E s \in Range(tree[p]) :
     s.type = "BlockStatement" /\ s.block = b /\ s.fnBody

BlockType(b) == IF b = 0 THEN "Program" ELSE "BlockStatement"

\* the block that holds statement id, -1 when the statement is detached
BlockOfStmt(tree, id) ==
  IF \E b \in Blocks(tree) : \E s \in Range(tree[b]) : s.id = id
  THEN CHOOSE b \in Blocks(tree) : \E s \in Range(tree[b]) : s.id = id
  ELSE -1

IndexOfStmt(seq, id) ==
  IF \E i \in 1..Len(seq) : seq[i].id = id
  THEN CHOOSE i \in 1..Len(seq) : seq[i].id = id
  ELSE 0

GetStmt(tree, id) ==
  LET b == BlockOfStmt(tree, id) IN tree[b][IndexOfStmt(tree[b], id)]

\* the block that holds the declaration of declarator d, -1 when detached
BlockOfDeclarator(tree, d) ==
  IF \E b \in Blocks(tree) : \E s \in Range(tree[b]) :
        \E dd \in Range(s.declarations) : dd.id = d
  THEN CHOOSE b \in Blocks(tree) : \E s \in Range(tree[b]) :
        \E dd \in Range(s.declarations) : dd.id = d
  ELSE -1

\* the ExpressionStatements of block b in traversal order (depth first)
RECURSIVE ExpressionStatements(_, _)
ExpressionStatements(tree, b) ==
  Concat([i \in 1..Len(tree[b]) |->
            LET s == tree[b][i] IN
            IF s.type \in {"ExpressionStatement", "IfStatement"} THEN <<s.id>>
            ELSE IF s.type = "BlockStatement" THEN ExpressionStatements(tree, s.block)
            ELSE <<>>])

\* the BlockStatements below block b in traversal order (depth first)
RECURSIVE NestedBlocks(_, _)
NestedBlocks(tree, b) ==
  Concat([i \in 1..Len(tree[b]) |->
            LET s == tree[b][i] IN
            IF s.type = "BlockStatement"
            THEN <<s.block>> \o NestedBlocks(tree, s.block)
            ELSE <<>>])

-----------------------------------------------------------------------------
(* Scopes.  Every block has its own scope, named by the block's id.  A      *)
(* `var` declared in a block that is no function body is bound in the scope *)
(* of the nearest enclosing function body, or of the Program.               *)

RECURSIVE FunctionParent(_, _)
FunctionParent(tree, b) ==
  IF b = 0 \/ BlockIsFunctionBody(tree, b) THEN b
  ELSE FunctionParent(tree, ParentBlock(tree, b))

BindingScope(tree, b, kind) == IF kind = "var" THEN FunctionParent(tree, b) ELSE b

\* scope.bindings[name]: the bindings of `name` that scope sc itself holds
OwnBindings(tree, sc, name) ==
  UNION { UNION {
     IF s.type = "VariableDeclaration" /\ BindingScope(tree, b, s.kind) = sc
     THEN { [path |-> "VariableDeclarator", id |-> d.id, init |-> d.init,
             pure |-> d.pure, constant |-> ~d.reassigned] :
               d \in {dd \in Range(s.declarations) : dd.name = name} }
     ELSE IF s.type = "FunctionDeclaration" /\ b = sc /\ s.name = name
     THEN { [path |-> "FunctionDeclaration", id |-> s.id, init |-> FALSE,
             pure |-> FALSE, constant |-> TRUE] }
     ELSE {} : s \in Range(tree[b]) } : b \in Blocks(tree) }

\* a binding of `name` in scope sc or in a scope around it
RECURSIVE HasBindingUp(_, _, _)
HasBindingUp(tree, sc, name) ==
  \/ OwnBindings(tree, sc, name) # {}
  \/ sc # 0 /\ HasBindingUp(tree, ParentBlock(tree, sc), name)

\* scope.hasGlobal(name): the reference resolves to no binding at all
hasGlobal(tree, sc, name) == ~HasBindingUp(tree, sc, name)

-----------------------------------------------------------------------------
(* FUNCTIONS: the validation rules.  A rule answers                         *)
(* [ok, err, marked]: whether it accepts, the error it throws, and the      *)
(* declarators it added to hoistedVariables.                                *)

isStringLiteral(arg) == arg.type = "StringLiteral"
isLiteral(arg) == arg.type \in {"StringLiteral", "NumericLiteral"}
isFunction(arg) == arg.type \in {"ArrowFunctionExpression", "FunctionExpression"}

Rejected == [ok |-> FALSE, err |-> NoError, marked |-> {}]
Accepted == [ok |-> TRUE, err |-> NoError, marked |-> {}]

\* a variant: the binding is looked up in the scopes around the call as well
RECURSIVE LookupAnyScope(_, _, _)
LookupAnyScope(tree, sc, name) ==
  OwnBindings(tree, sc, name)
    \cup (IF sc = 0 THEN {} ELSE LookupAnyScope(tree, ParentBlock(tree, sc), name))

\* const binding = scope.bindings[name]: the binding the call's scope itself holds
LookupHoistable(tree, sc, name) == OwnBindings(tree, sc, name)

\* the `for (const id of ids)` loop of FUNCTIONS.mock, from the i-th id on
RECURSIVE CheckIds(_, _, _, _, _)
CheckIds(refs, i, tree, sc, marked) ==
  IF i > Len(refs) THEN [ok |-> TRUE, err |-> NoError, marked |-> marked]
  ELSE
    LET name == refs[i].name
        allowed == \/ hasGlobal(tree, sc, name) /\ name \in ALLOWED_IDENTIFIERS
                   \/ TestMockPrefix(name)
                   \/ TestCoverage(name)
        bindings == LookupHoistable(tree, sc, name)
        hoistable == { bd \in bindings : /\ bd.path = "VariableDeclarator"
                                         /\ bd.init /\ bd.constant /\ bd.pure }
    IN  IF refs[i].inner \/ allowed
        THEN CheckIds(refs, i + 1, tree, sc, marked)
        ELSE IF hoistable # {}
        THEN CheckIds(refs, i + 1, tree, sc, marked \cup {bd.id : bd \in hoistable})
        ELSE [ok |-> FALSE,
              err |-> [kind |-> "OutOfScopeReference", name |-> name],
              marked |-> marked]

FUNCTIONS_mock(args, tree, sc) ==
  IF Len(args) = 1
  THEN [Rejected EXCEPT !.ok = isStringLiteral(args[1]) \/ isLiteral(args[1])]
  ELSE IF Len(args) = 2 \/ Len(args) = 3
  THEN IF ~isFunction(args[2])
       THEN [Rejected EXCEPT !.err = [kind |-> "InvalidFactoryArgument", name |-> <<>>]]
       ELSE CheckIds(args[2].refs, 1, tree, sc, {})
  ELSE Rejected

FUNCTIONS_unmock(args) ==
  [Rejected EXCEPT !.ok = Len(args) = 1 /\ isStringLiteral(args[1])]

FUNCTIONS_automock(args) == [Rejected EXCEPT !.ok = Len(args) = 0]

\* FUNCTIONS[propertyName]?.(args)
FUNCTIONS(propertyName, args, tree, sc) ==
  CASE propertyName = "mock" -> FUNCTIONS_mock(args, tree, sc)
    [] propertyName \in {"unmock", "deepUnmock"} -> FUNCTIONS_unmock(args)
    [] propertyName \in {"disableAutomock", "enableAutomock"} -> FUNCTIONS_automock(args)
    [] OTHER -> Rejected

-----------------------------------------------------------------------------
(* The call-chain detector.  An expression is a root and the calls made on  *)
(* it, innermost first: root.links[1](...).links[2](...) ...                *)

\* a variant: `jest` is taken for the global whatever is bound in scope
isJestObjectIgnoringBinding(expression) ==
  \/ /\ expression.type = "Identifier"
     /\ expression.name = JEST_GLOBAL_NAME
  \/ expression.refsNamed
  \/ /\ expression.type = "MemberExpression"
     /\ ~expression.computed
     /\ expression.objRefsWildcard
     /\ expression.property = JEST_GLOBALS_MODULE_JEST_EXPORT_NAME

isJestObject(expression) ==
  \/ /\ expression.type = "Identifier"
     /\ expression.name = JEST_GLOBAL_NAME
     /\ ~expression.hasBinding
  \/ expression.refsNamed
  \/ /\ expression.type = "MemberExpression"
     /\ ~expression.computed
     /\ expression.objRefsWildcard
     /\ expression.property = JEST_GLOBALS_MODULE_JEST_EXPORT_NAME

\* a variant: the rule of a call is run before its receiver is resolved
RECURSIVE extractRuleFirst(_, _, _, _)
extractRuleFirst(expr, n, tree, sc) ==
  IF n = 0 \/ expr.links[IF n = 0 THEN 1 ELSE n].computed
  THEN [found |-> FALSE, err |-> NoError, marked |-> {}]
  ELSE
    LET functionLooksHoistable ==
          FUNCTIONS(expr.links[n].property, expr.links[n].args, tree, sc)
        jestObjExpr ==
          IF n = 1 /\ isJestObject(expr.root)
          THEN [found |-> TRUE, err |-> NoError, marked |-> {}]
          ELSE extractRuleFirst(expr, n - 1, tree, sc)
    IN  IF functionLooksHoistable.err # NoError
        THEN [found |-> FALSE, err |-> functionLooksHoistable.err,
              marked |-> functionLooksHoistable.marked]
        ELSE [found |-> jestObjExpr.found /\ functionLooksHoistable.ok,
              err |-> jestObjExpr.err,
              marked |-> jestObjExpr.marked \cup functionLooksHoistable.marked]

\* extractJestObjExprIfHoistable on the expression made of the root and its
\* first n calls: [found, err, marked]
RECURSIVE extractJestObjExprIfHoistable(_, _, _, _)
extractJestObjExprIfHoistable(expr, n, tree, sc) ==
  IF n = 0
  THEN \* the root: no call, or a call whose callee is an identifier
       [found |-> FALSE, err |-> NoError, marked |-> {}]
  ELSE IF expr.links[n].computed
  THEN [found |-> FALSE, err |-> NoError, marked |-> {}]
  ELSE
    LET jestObjExpr ==
          IF n = 1 /\ isJestObject(expr.root)
          THEN [found |-> TRUE, err |-> NoError, marked |-> {}]
          ELSE extractJestObjExprIfHoistable(expr, n - 1, tree, sc)
    IN  IF jestObjExpr.err # NoError \/ ~jestObjExpr.found
        THEN [jestObjExpr EXCEPT !.found = FALSE]
        ELSE LET functionLooksHoistable ==
                   FUNCTIONS(expr.links[n].property, expr.links[n].args, tree, sc)
             IN  [found |-> functionLooksHoistable.ok,
                  err |-> functionLooksHoistable.err,
                  marked |-> jestObjExpr.marked \cup functionLooksHoistable.marked]

-----------------------------------------------------------------------------
(* The getter. *)

Digits == <<"1", "2", "3", "4", "5", "6", "7", "8", "9">>
Uid(i) == IF i = 1 THEN GetterBase ELSE GetterBase \o <<Digits[i]>>

UsedNames(tree) ==
  UNION { UNION { {s.name, s.expr.root.name} \cup {d.name : d \in Range(s.declarations)} :
                  s \in Range(tree[b]) } : b \in Blocks(tree) }

\* program.scope.generateUidIdentifier('getJestObj')
generateUidIdentifier(tree) ==
  Uid(CHOOSE i \in 1..Len(Digits) :
        /\ Uid(i) \notin UsedNames(tree)
        /\ \A j \in 1..(i - 1) : Uid(j) \in UsedNames(tree))

\* a variant: the nodes are put at the end of the block
pushContainer(tree, b, nodes) == [tree EXCEPT ![b] = @ \o nodes]

\* block.unshiftContainer('body', nodes)
unshiftContainer(tree, b, nodes) == [tree EXCEPT ![b] = nodes \o @]

\* jestObjExpr.replaceWith(callExpression(getter, [])) in statement id
replaceWith(tree, id, getter) ==
  LET b == BlockOfStmt(tree, id)
      i == IndexOfStmt(tree[b], id)
  IN  [tree EXCEPT ![b][i].expr.root = callExpression(getter)]

-----------------------------------------------------------------------------
(* visitor.ExpressionStatement *)

VisitExpressionStatement ==
  /\ pc = "visit"
  /\ todo # <<>>
  /\ LET id == Head(todo)
         exprStmt == GetStmt(body, id)
         sc == BlockOfStmt(body, id)
         r == extractJestObjExprIfHoistable(exprStmt.expr, Len(exprStmt.expr.links), body, sc)
         declare == jestObjGetterIdentifier = <<>>
         getter == IF declare THEN generateUidIdentifier(body) ELSE jestObjGetterIdentifier
         withGetter == IF declare
                       THEN unshiftContainer(body, 0, <<FunctionDeclaration(nextId, getter)>>)
                       ELSE body
     IN  /\ todo' = Tail(todo)
         /\ hoistedVariables' = hoistedVariables \cup r.marked
         /\ marks' = marks \cup {<<id, d>> : d \in r.marked}
         /\ IF r.err # NoError
            THEN /\ pc' = "error"
                 /\ error' = r.err
                 /\ thrower' = id
                 /\ UNCHANGED <<body, jestObjGetterIdentifier, nextId, rewritten>>
            ELSE IF r.found
            THEN /\ body' = replaceWith(withGetter, id, getter)
                 /\ jestObjGetterIdentifier' = getter
                 /\ nextId' = IF declare THEN nextId + 1 ELSE nextId
                 /\ rewritten' = rewritten \cup {id}
                 /\ UNCHANGED <<pc, error, thrower>>
            ELSE UNCHANGED <<body, jestObjGetterIdentifier, nextId, rewritten,
                             pc, error, thrower>>
  /\ UNCHANGED <<blocksLeft, block, queue, hoistPoints, run, input, preHoist, firstOutput>>

-----------------------------------------------------------------------------
(* post: visitBlock(program), then visitBlock on every BlockStatement. *)

\* path.remove() of statement id
remove(tree, id) ==
  LET b == BlockOfStmt(tree, id) IN
  [tree EXCEPT ![b] = SelectSeq(@, LAMBDA s : s.id # id)]

\* a variant: the node becomes the sibling just after the anchor
insertAfter(tree, anchor, node) ==
  LET b == BlockOfStmt(tree, anchor)
      i == IndexOfStmt(tree[b], anchor)
  IN  [tree EXCEPT ![b] = SubSeq(@, 1, i) \o <<node>> \o SubSeq(@, i + 1, Len(@))]

\* anchor.insertBefore(node): node becomes the sibling just before the anchor
insertBefore(tree, anchor, node) ==
  LET b == BlockOfStmt(tree, anchor)
      i == IndexOfStmt(tree[b], anchor)
  IN  [tree EXCEPT ![b] = SubSeq(@, 1, i - 1) \o <<node>> \o SubSeq(@, i, Len(@))]

\* a variant: block.traverse descends into nested blocks
noBlacklist == {}

\* the node types block.traverse does not descend into
blacklist == {"BlockStatement"}

\* path.isBlock() by node type
isBlock(type) == type \in {"BlockStatement", "Program", "TSModuleBlock"}

\* The CallExpression and VariableDeclarator nodes block.traverse visits below
\* block b, in document order.  Of the calls of a statement only the one at
\* the root of its chain can have an identifier as callee, so a statement
\* stands for its calls.  The body of a function is a BlockStatement.
RECURSIVE TraversalQueue(_, _)
TraversalQueue(tree, b) ==
  Concat([i \in 1..Len(tree[b]) |->
     LET s == tree[b][i] IN
     CASE s.type \in {"ExpressionStatement", "IfStatement"} ->
            IF s.expr.links # <<>> \/ s.expr.root.type = "CallExpression"
            THEN <<[type |-> "CallExpression", stmt |-> s.id, decl |-> 0]>>
            ELSE <<>>
       [] s.type = "VariableDeclaration" ->
            [k \in 1..Len(s.declarations) |->
               [type |-> "VariableDeclarator", stmt |-> s.id, decl |-> s.declarations[k].id]]
       [] s.type = "BlockStatement" ->
            IF "BlockStatement" \in blacklist THEN <<>> ELSE TraversalQueue(tree, s.block)
       [] OTHER -> <<>>])

\* a variant: any call of a name that begins like a getter's is taken for the getter
isGetterCallByPrefix(callee, getter) ==
  callee.type = "CallExpression" /\ StartsWith(callee.name, GetterBase)

\* isIdentifier(callee) && callee.name === self.jestObjGetterIdentifier?.name
isGetterCall(callee, getter) ==
  callee.type = "CallExpression" /\ callee.name = getter

post ==
  /\ pc = "visit"
  /\ todo = <<>>
  /\ pc' = "post"
  /\ blocksLeft' = <<0>>
  /\ preHoist' = body
  /\ UNCHANGED <<body, hoistedVariables, jestObjGetterIdentifier, error, todo, block,
                 queue, hoistPoints, nextId, run, input, marks, rewritten, thrower,
                 firstOutput>>

\* visitBlock up to block.traverse: the two hoist points are put in front
visitBlock ==
  /\ pc = "post"
  /\ blocksLeft # <<>>
  /\ LET b == Head(blocksLeft) IN
     /\ block' = b
     /\ hoistPoints' = [vars |-> nextId, calls |-> nextId + 1]
     /\ body' = unshiftContainer(body, b, <<emptyStatement(nextId), emptyStatement(nextId + 1)>>)
     /\ queue' = TraversalQueue(body, b)
  /\ nextId' = nextId + 2
  /\ blocksLeft' = Tail(blocksLeft)
  /\ pc' = "traverse"
  /\ UNCHANGED <<hoistedVariables, jestObjGetterIdentifier, error, todo, run, input,
                 preHoist, marks, rewritten, thrower, firstOutput>>

visitCallExpr ==
  /\ pc = "traverse"
  /\ queue # <<>>
  /\ Head(queue).type = "CallExpression"
  /\ LET stmt == GetStmt(body, Head(queue).stmt)
         callee == stmt.expr.root
         mockStmtParent == IF stmt.type = "ExpressionStatement"
                           THEN BlockType(BlockOfStmt(body, stmt.id))
                           ELSE stmt.type
     IN  body' = IF /\ isGetterCall(callee, jestObjGetterIdentifier)
                    /\ isBlock(mockStmtParent)
                 THEN insertBefore(remove(body, stmt.id), hoistPoints.calls, stmt)
                 ELSE body
  /\ queue' = Tail(queue)
  /\ UNCHANGED <<hoistedVariables, jestObjGetterIdentifier, pc, error, todo, blocksLeft,
                 block, hoistPoints, nextId, run, input, preHoist, marks, rewritten,
                 thrower, firstOutput>>

visitVariableDeclarator ==
  /\ pc = "traverse"
  /\ queue # <<>>
  /\ Head(queue).type = "VariableDeclarator"
  /\ LET parent == GetStmt(body, Head(queue).stmt)
         b == BlockOfStmt(body, parent.id)
         i == IndexOfStmt(body[b], parent.id)
         varDecl == CHOOSE d \in Range(parent.declarations) : d.id = Head(queue).decl
         removed == IF Len(parent.declarations) = 1
                    THEN remove(body, parent.id)
                    ELSE [body EXCEPT ![b][i].declarations =
                            SelectSeq(@, LAMBDA d : d.id # varDecl.id)]
     IN  IF varDecl.id \in hoistedVariables
         THEN /\ body' = insertBefore(removed, hoistPoints.vars,
                                      variableDeclaration(nextId, parent.kind, <<varDecl>>))
              /\ nextId' = nextId + 1
         ELSE UNCHANGED <<body, nextId>>
  /\ queue' = Tail(queue)
  /\ UNCHANGED <<hoistedVariables, jestObjGetterIdentifier, pc, error, todo, blocksLeft,
                 block, hoistPoints, run, input, preHoist, marks, rewritten, thrower,
                 firstOutput>>

\* visitBlock after block.traverse: the hoist points are removed.  After the
\* program's own pass, program.traverse finds the BlockStatements.
visitBlockEnd ==
  /\ pc = "traverse"
  /\ queue = <<>>
  /\ body' = remove(remove(body, hoistPoints.calls), hoistPoints.vars)
  /\ blocksLeft' = IF block = 0 THEN NestedBlocks(body, 0) ELSE blocksLeft
  /\ pc' = "post"
  /\ UNCHANGED <<hoistedVariables, jestObjGetterIdentifier, error, todo, block, queue,
                 hoistPoints, nextId, run, input, preHoist, marks, rewritten, thrower,
                 firstOutput>>

postEnd ==
  /\ pc = "post"
  /\ blocksLeft = <<>>
  /\ pc' = "done"
  /\ firstOutput' = IF run = 1 THEN body ELSE firstOutput
  /\ UNCHANGED <<body, hoistedVariables, jestObjGetterIdentifier, error, todo, blocksLeft,
                 block, queue, hoistPoints, nextId, run, input, preHoist, marks,
                 rewritten, thrower>>

\* The transform is run again on its own output: a new plugin pass (pre) with
\* no getter identifier.  hoistedVariables belongs to the module and is keyed
\* by node: it still holds the declarators when the same nodes are kept, and
\* none of them when the output was printed and parsed again.
Rerun ==
  /\ pc = "done"
  /\ run < MaxRuns
  /\ run' = run + 1
  /\ pc' = "visit"
  /\ todo' = ExpressionStatements(body, 0)
  /\ jestObjGetterIdentifier' = <<>>
  /\ \E sameNodes \in BOOLEAN :
        hoistedVariables' = IF sameNodes THEN hoistedVariables ELSE {}
  /\ input' = body
  /\ marks' = {}
  /\ rewritten' = {}
  /\ UNCHANGED <<body, error, blocksLeft, block, queue, hoistPoints, nextId, preHoist,
                 thrower, firstOutput>>

-----------------------------------------------------------------------------
(* Input programs. *)

Jest == Identifier(JEST_GLOBAL_NAME, FALSE, FALSE)
StringArg == Arg("StringLiteral", <<>>)
Factory(refs) == Arg("ArrowFunctionExpression", refs)

Call(root, links) == [root |-> root, links |-> links]

\* .mock('x')
LinkMockPath == Link(FALSE, "mock", <<StringArg>>)
\* .mock('m', () => <refs>)
LinkMockFactory(refs) == Link(FALSE, "mock", <<StringArg, Factory(refs)>>)
\* .mock('m', 1)
LinkMockNoFactory == Link(FALSE, "mock", <<StringArg, Arg("NumericLiteral", <<>>)>>)
\* .mock(id, () => {})
LinkMockIdFactory == Link(FALSE, "mock", <<Arg("Identifier", <<>>), Factory(<<>>)>>)
\* .unmock('a')
LinkUnmock == Link(FALSE, "unmock", <<StringArg>>)
\* .foo('x')
LinkFoo == Link(FALSE, "foo", <<StringArg>>)
\* ['mock']('x')
LinkComputed == Link(TRUE, "mock", <<StringArg>>)
\* .mock('a', 'b', 'c', 'd')
LinkMockFour == Link(FALSE, "mock", <<StringArg, StringArg, StringArg, StringArg>>)

ConstX(id) == VariableDeclarator(id, NameX, TRUE, TRUE, FALSE)

\* the statements the flat and the nested programs are made of
Instance(t, id) ==
  CASE t = "A" -> OtherStatement(id)
    [] t = "mock" -> ExpressionStatement(id, Call(Jest, <<LinkMockPath>>))
    [] t = "mockX" ->
         ExpressionStatement(id, Call(Jest, <<LinkMockFactory(<<Ref(NameX, FALSE)>>)>>))
    [] t = "mockX.foo" ->
         ExpressionStatement(id, Call(Jest, <<LinkMockFactory(<<Ref(NameX, FALSE)>>), LinkFoo>>))
    [] t = "if-mock" -> IfStatement(id, Call(Jest, <<LinkMockPath>>))
    [] t = "unmock.mock" ->
         ExpressionStatement(id, Call(Jest, <<LinkUnmock, LinkMockFactory(<<>>)>>))
    [] t = "getter.mock" ->
         ExpressionStatement(id, Call(callExpression(GetterBase), <<LinkMockPath>>))
    [] t = "const x" -> variableDeclaration(id, "const", <<ConstX(id * 10 + 1)>>)
    [] t = "var x" -> variableDeclaration(id, "var", <<ConstX(id * 10 + 1)>>)
    [] t = "let a, x" ->
         variableDeclaration(id, "let",
            <<VariableDeclarator(id * 10 + 1, NameA, TRUE, TRUE, FALSE), ConstX(id * 10 + 2)>>)

Declares == {"const x", "var x", "let a, x"}

FlatTemplates ==
  {"A", "mock", "mockX", "mockX.foo", "if-mock", "unmock.mock", "getter.mock",
   "const x", "let a, x"}
OuterTemplates == {"A", "mock", "mockX", "const x"}
NestedTemplates == {"A", "mock", "mockX", "const x", "var x"}

ExampleTemplates == {"A", "mock", "mockX", "const x"}
MaxExample == 4

OnceDeclared(f) == Cardinality({i \in DOMAIN f : f[i] \in Declares}) <= 1

\* block 0 alone
FlatPrograms ==
  { [b \in {0} |-> [i \in DOMAIN f |-> Instance(f[i], i)]] :
      f \in {g \in UNION {[1..n -> FlatTemplates] : n \in 1..MaxBody} : OnceDeclared(g)} }

\* block 0 alone, MaxExample statements: [A; mock("x"); B; mock("y")] is one
ExamplePrograms ==
  { [b \in {0} |-> [i \in DOMAIN f |-> Instance(f[i], i)]] :
      f \in {g \in [1..MaxExample -> ExampleTemplates] : OnceDeclared(g)} }

\* block 0 holds one statement and one BlockStatement, before or after it
NestedPrograms ==
  { [b \in {0, 1} |->
       IF b = 1 THEN [i \in DOMAIN p.f |-> Instance(p.f[i], 10 + i)]
       ELSE IF p.first THEN <<BlockStatement(2, 1, p.fn), Instance(p.t, 1)>>
       ELSE <<Instance(p.t, 1), BlockStatement(2, 1, p.fn)>>] :
      p \in { q \in [t : OuterTemplates, first : BOOLEAN, fn : BOOLEAN,
                     f : UNION {[1..n -> NestedTemplates] : n \in 1..MaxNested}] :
                 Cardinality({i \in DOMAIN q.f : q.f[i] \in Declares})
                   + (IF q.t \in Declares THEN 1 ELSE 0) <= 1 } }

MaxChain == 2

JestBound == Identifier(JEST_GLOBAL_NAME, TRUE, FALSE)
\* import {jest as j} from '@jest/globals'
NamedImport == Identifier(NameJ, TRUE, TRUE)
\* import * as JestGlobals from '@jest/globals': JestGlobals.jest
Wildcard == MemberExpression(FALSE, TRUE, JEST_GLOBALS_MODULE_JEST_EXPORT_NAME)
\* JestGlobals[jest]
WildcardComputed == MemberExpression(TRUE, TRUE, JEST_GLOBALS_MODULE_JEST_EXPORT_NAME)
\* JestGlobals.foo
WildcardOther == MemberExpression(FALSE, TRUE, NameFoo)
\* obj.jest
OtherMember == MemberExpression(FALSE, FALSE, JEST_GLOBALS_MODULE_JEST_EXPORT_NAME)
Obj == Identifier(NameObj, TRUE, FALSE)

Roots == {Jest, JestBound, NamedImport, Wildcard, WildcardComputed, WildcardOther,
          OtherMember, Obj, callExpression(NameFoo)}

ChainLinks == {LinkMockPath, LinkMockFactory(<<Ref(NameX, FALSE)>>), LinkMockNoFactory,
               LinkMockIdFactory, LinkUnmock, LinkFoo, LinkComputed, LinkMockFour}

\* `const x = 1;` and one expression statement: a root and up to MaxChain calls
ChainPrograms ==
  { [b \in {0} |-> <<Instance("const x", 1), ExpressionStatement(2, Call(r, l))>>] :
      r \in Roots, l \in UNION {[1..n -> ChainLinks] : n \in 0..MaxChain} }

NumberArg == Arg("NumericLiteral", <<>>)
IdArg == Arg("Identifier", <<>>)

RuleLinks ==
  { Link(FALSE, "mock", <<>>),
    Link(FALSE, "mock", <<NumberArg>>),
    Link(FALSE, "mock", <<IdArg>>),
    Link(FALSE, "mock", <<StringArg, Factory(<<>>), NumberArg>>),
    Link(FALSE, "mock", <<StringArg, Arg("FunctionExpression", <<>>)>>),
    Link(FALSE, "mock", <<StringArg, NumberArg, NumberArg>>),
    Link(FALSE, "mock", <<IdArg, Factory(<<>>), NumberArg>>),
    Link(FALSE, "unmock", <<NumberArg>>),
    Link(FALSE, "unmock", <<StringArg, StringArg>>),
    Link(FALSE, "deepUnmock", <<StringArg>>),
    Link(FALSE, "deepUnmock", <<>>),
    Link(FALSE, "enableAutomock", <<>>),
    Link(FALSE, "disableAutomock", <<>>),
    Link(FALSE, "disableAutomock", <<StringArg>>) }

\* one call on `jest`, for every shape of arguments the rules tell apart
RulePrograms ==
  { [b \in {0} |-> <<ExpressionStatement(1, Call(Jest, <<l>>))>>] : l \in RuleLinks }

RefNames == {NameX, NameMockFoo, NameMOCKBar, NameAmock, NameCov, NameUUCov, NameUCov,
             NameMath, NameRequire}

\* how the name a factory reads is declared around the call
Contexts == {"none", "const", "reassigned", "impure", "no init", "function", "outer"}

Declaration(ctx, name) ==
  CASE ctx \in {"const", "outer"} ->
         <<variableDeclaration(1, "const", <<VariableDeclarator(11, name, TRUE, TRUE, FALSE)>>)>>
    [] ctx = "reassigned" ->
         <<variableDeclaration(1, "let", <<VariableDeclarator(11, name, TRUE, TRUE, TRUE)>>)>>
    [] ctx = "impure" ->
         <<variableDeclaration(1, "const", <<VariableDeclarator(11, name, TRUE, FALSE, FALSE)>>)>>
    [] ctx = "no init" ->
         <<variableDeclaration(1, "let", <<VariableDeclarator(11, name, FALSE, FALSE, FALSE)>>)>>
    [] ctx = "function" -> <<FunctionDeclaration(1, name)>>
    [] OTHER -> <<>>

RefLists(name, inner) ==
  { <<Ref(name, inner)>>,
    <<Ref(name, inner), Ref(NameUCov, FALSE)>>,
    <<Ref(NameUCov, FALSE), Ref(name, inner)>>,
    <<Ref(name, inner), Ref(NameRequire, FALSE)>> }

\* `jest.mock('m', () => ...)` reading a name, for every way the name is declared
FreeVariablePrograms ==
  { LET mock == ExpressionStatement(2, Call(Jest, <<LinkMockFactory(p.refs)>>)) IN
    IF p.ctx = "outer"
    THEN [b \in {0, 1} |->
            IF b = 0 THEN Declaration(p.ctx, p.name) \o <<BlockStatement(3, 1, TRUE)>>
            ELSE <<mock>>]
    ELSE [b \in {0} |-> Declaration(p.ctx, p.name) \o <<mock>>] :
      p \in UNION { [name : {n}, ctx : Contexts, refs : RefLists(n, i)] :
                     n \in RefNames, i \in BOOLEAN } }

Programs ==
  FlatPrograms \cup ExamplePrograms \cup NestedPrograms \cup ChainPrograms
    \cup RulePrograms \cup FreeVariablePrograms

-----------------------------------------------------------------------------
(* The specification. *)

FirstId == 100

Init ==
  /\ body \in Programs
  /\ hoistedVariables = {}
  /\ jestObjGetterIdentifier = <<>>
  /\ pc = "visit"
  /\ error = NoError
  /\ todo = ExpressionStatements(body, 0)
  /\ blocksLeft = <<>>
  /\ block = 0
  /\ queue = <<>>
  /\ hoistPoints = [vars |-> 0, calls |-> 0]
  /\ nextId = FirstId
  /\ run = 1
  /\ input = body
  /\ preHoist = body
  /\ marks = {}
  /\ rewritten = {}
  /\ thrower = 0
  /\ firstOutput = body

Next ==
  \/ VisitExpressionStatement
  \/ post
  \/ visitBlock
  \/ visitCallExpr
  \/ visitVariableDeclarator
  \/ visitBlockEnd
  \/ postEnd
  \/ Rerun

Spec == Init /\ [][Next]_vars

-----------------------------------------------------------------------------
(* Properties. *)

Statements(tree) == UNION {Range(tree[b]) : b \in Blocks(tree)}

\* the expression statements of this run's input the visitor has been on
Visited == { s \in Statements(input) :
               /\ s.type \in {"ExpressionStatement", "IfStatement"}
               /\ s.id \notin Range(todo) }

\* a tree without the identity of its declaration statements: a hoisted
\* declarator gets a new declaration statement around it
Shape(tree) ==
  [b \in Blocks(tree) |->
     [i \in 1..Len(tree[b]) |->
        IF tree[b][i].type = "VariableDeclaration"
        THEN [tree[b][i] EXCEPT !.id = 0] ELSE tree[b][i]]]

IsHoistedCall(s) ==
  /\ s.type = "ExpressionStatement"
  /\ s.expr.root.type = "CallExpression"
  /\ s.expr.root.name = jestObjGetterIdentifier

Eligible(s) == SelectSeq(s.declarations, LAMBDA d : d.id \in hoistedVariables)
NotEligible(s) == SelectSeq(s.declarations, LAMBDA d : d.id \notin hoistedVariables)

\* [hoisted declarators, each alone] then [getter calls] then [the rest]
ExpectedOrder(stmts) ==
  Concat([i \in 1..Len(stmts) |->
            [k \in 1..Len(Eligible(stmts[i])) |->
               variableDeclaration(0, stmts[i].kind, <<Eligible(stmts[i])[k]>>)]])
  \o SelectSeq(stmts, IsHoistedCall)
  \o Concat([i \in 1..Len(stmts) |->
               IF IsHoistedCall(stmts[i]) THEN <<>>
               ELSE IF stmts[i].type # "VariableDeclaration" THEN <<stmts[i]>>
               ELSE IF NotEligible(stmts[i]) = <<>> THEN <<>>
               ELSE <<[stmts[i] EXCEPT !.id = 0, !.declarations = NotEligible(stmts[i])]>>])

IsGetterDeclaration(s) ==
  s.type = "FunctionDeclaration" /\ s.name = jestObjGetterIdentifier

GetterDeclarations ==
  { <<b, i>> \in UNION {{b} \X (1..Len(body[b])) : b \in Blocks(body)} :
      IsGetterDeclaration(body[b][i]) }

\* a statement the hoisting pass has put at the front of its block
IsHoisted(s) ==
  \/ IsHoistedCall(s)
  \/ /\ s.type = "VariableDeclaration"
     /\ \E d \in Range(s.declarations) : d.id \in hoistedVariables

\* C8 as stated: once a call was rewritten there is one getter declaration,
\* and in the final program it is the first statement of the program.
C8_GetterFirst ==
  (pc = "done" /\ rewritten # {}) =>
    /\ Cardinality(GetterDeclarations) = 1
    /\ IsGetterDeclaration(body[0][1])

\* C8 as amended: once a call was rewritten there is one getter declaration,
\* in the program body; it is the first statement of the program until the
\* hoisting pass, and in the final program it comes after the statements the
\* pass moved to the front of the program and before every other statement.
C8_GetterAfterHoisted ==
  rewritten # {} =>
    /\ Cardinality(GetterDeclarations) = 1
    /\ \E g \in 1..Len(body[0]) :
         /\ IsGetterDeclaration(body[0][g])
         /\ pc \in {"visit", "error"} \/ (pc = "post" /\ blocksLeft = <<0>>) => g = 1
         /\ pc = "done" =>
              /\ \A i \in 1..(g - 1) : IsHoisted(body[0][i])
              /\ \A i \in (g + 1)..Len(body[0]) : ~IsHoisted(body[0][i])

\* C8 happens: the run is over and the getter declaration stands behind a
\* hoisted declaration and a hoisted call, in front of another statement.
C8_Witness ==
  /\ pc = "done"
  /\ run = 1
  /\ Len(body[0]) = 4
  /\ body[0][1].type = "VariableDeclaration"
  /\ IsHoistedCall(body[0][2])
  /\ IsGetterDeclaration(body[0][3])
  /\ body[0][4].type = "Other"

\* the statements of block b and of the blocks below it, in program order
RECURSIVE ProgramOrder(_, _)
ProgramOrder(tree, b) ==
  Concat([i \in 1..Len(tree[b]) |->
            IF tree[b][i].type = "BlockStatement"
            THEN <<tree[b][i]>> \o ProgramOrder(tree, tree[b][i].block)
            ELSE <<tree[b][i]>>])

Position(seq, P(_)) == CHOOSE i \in 1..Len(seq) : P(seq[i])

\* C9: when the run is over, the declaration of every declarator that a mock
\* call's factory marked stands before the statement of that call.
C9_DeclaredBeforeMock ==
  (pc = "done" /\ run = 1) =>
    \A m \in marks :
      LET order == ProgramOrder(body, 0) IN
      Position(order, LAMBDA s : \E d \in Range(s.declarations) : d.id = m[2])
        < Position(order, LAMBDA s : s.id = m[1])

\* C10: a declarator is marked, and moved out of its declaration, only by a
\* statement that was rewritten.
C10_OnlyRewrittenMark ==
  (pc = "done" /\ run = 1) =>
    \A s \in Statements(input) : \A d \in Range(s.declarations) :
      (~\E m \in rewritten : <<m, d.id>> \in marks) =>
         /\ d.id \notin hoistedVariables
         /\ \E t \in Statements(body) : t.id = s.id /\ d \in Range(t.declarations)

\* C4: a further run of the whole transform on the output of the first run
\* ends without an error, rewrites nothing, declares no getter and leaves
\* every statement and declarator where it was.
C4_Idempotent ==
  run > 1 =>
    /\ pc # "error"
    /\ rewritten = {}
    /\ jestObjGetterIdentifier = <<>>
    /\ pc = "done" => Shape(body) = Shape(firstOutput)

\* C4 happens: a second run is over on a program in which the first run
\* rewrote calls and hoisted a declarator, and whose declarators are still
\* in hoistedVariables.
C4_Witness ==
  /\ pc = "done"
  /\ run = 2
  /\ hoistedVariables # {}
  /\ \E s \in Statements(body) : s.type = "FunctionDeclaration" /\ s.name = GetterBase
  /\ \E s \in Range(body[0]) :
        s.type = "ExpressionStatement" /\ s.expr.root = callExpression(GetterBase)
  /\ body[0] # input[0] \/ firstOutput = body

\* a mocking-object reference: `jest` with no binding in scope, a named
\* import of `jest` from @jest/globals, or `.jest` off a wildcard import
IsMockingObjectReference(root) ==
  \/ root.type = "Identifier" /\ root.name = <<"j", "e", "s", "t">> /\ ~root.hasBinding
  \/ root.type = "Identifier" /\ root.refsNamed
  \/ /\ root.type = "MemberExpression"
     /\ ~root.computed
     /\ root.objRefsWildcard
     /\ root.property = <<"j", "e", "s", "t">>

\* the scope of the statement, in this run's input
ScopeOf(s) == BlockOfStmt(input, s.id)

\* the validation rule of the i-th call of the chain accepts it
RuleAccepts(s, i) ==
  /\ ~s.expr.links[i].computed
  /\ FUNCTIONS(s.expr.links[i].property, s.expr.links[i].args, input, ScopeOf(s)).ok

\* C3: an expression statement the visitor has been on is rewritten exactly
\* when it is a call, every call of its chain is a non-computed member call
\* that its rule accepts, and the root of the chain is a mocking-object
\* reference; then the root, and nothing else, is a call of the getter, and
\* otherwise the expression is as it was.
C3_RewrittenIffHoistable ==
  \A s \in Visited :
    LET now == GetStmt(body, s.id).expr IN
    /\ s.id \in rewritten <=>
         /\ s.expr.links # <<>>
         /\ \A i \in 1..Len(s.expr.links) : RuleAccepts(s, i)
         /\ IsMockingObjectReference(s.expr.root)
    /\ now = IF s.id \in rewritten
             THEN [s.expr EXCEPT !.root = callExpression(jestObjGetterIdentifier)]
             ELSE s.expr

\* C3 happens: `jest.unmock('a').mock('b', () => {})` was rewritten as a whole.
C3_Witness ==
  /\ pc = "done"
  /\ run = 1
  /\ \E s \in Visited :
       /\ s.id \in rewritten
       /\ s.expr.root = Jest
       /\ s.expr.links = <<LinkUnmock, LinkMockFactory(<<>>)>>
       /\ GetStmt(body, s.id).expr.links = s.expr.links

\* the i-th call of the chain is `mock` with 2 or 3 arguments on a chain
\* that is resolved up to it
ResolvedMockWithFactory(s, i) ==
  /\ IsMockingObjectReference(s.expr.root)
  /\ \A j \in 1..(i - 1) : RuleAccepts(s, j)
  /\ ~s.expr.links[i].computed
  /\ s.expr.links[i].property = "mock"
  /\ Len(s.expr.links[i].args) \in {2, 3}

\* C6: an error is thrown only on a statement one of whose calls is `mock`
\* with 2 or 3 arguments on a receiver chain resolved to the mocking object;
\* a statement that is rejected without an error is left as it was.
C6_ErrorOnlyOnMockingObject ==
  /\ error # NoError =>
       \E s \in Visited :
          /\ s.id = thrower
          /\ \E i \in 1..Len(s.expr.links) : ResolvedMockWithFactory(s, i)
  /\ \A s \in Visited :
       s.id \notin rewritten => GetStmt(body, s.id).expr = s.expr

\* C6 happens: `obj.mock('m', 1)`, whose rule would throw, was visited and
\* rejected without an error.
C6_Witness ==
  /\ pc = "done"
  /\ error = NoError
  /\ \E s \in Visited :
       /\ s.expr.root = Obj
       /\ s.expr.links = <<LinkMockNoFactory>>
       /\ s.id \notin rewritten

\* C7: a rewritten chain has no `mock` call with 2 or 3 arguments whose first
\* argument is not a literal or whose second argument is not a function.
C7_FirstArgumentLiteral ==
  \A s \in Visited :
    s.id \in rewritten =>
      \A i \in 1..Len(s.expr.links) :
        (s.expr.links[i].property = "mock" /\ Len(s.expr.links[i].args) \in {2, 3}) =>
          /\ isLiteral(s.expr.links[i].args[1])
          /\ isFunction(s.expr.links[i].args[2])

\* the scope sc and the scopes around it
RECURSIVE ScopesUp(_)
ScopesUp(sc) == IF sc = 0 THEN {0} ELSE {sc} \cup ScopesUp(ParentBlock(input, sc))

\* the statements that are one `mock` call with a factory on the mocking object
MockWithFactory ==
  { s \in Visited : /\ Len(s.expr.links) = 1
                    /\ ResolvedMockWithFactory(s, 1)
                    /\ isFunction(s.expr.links[1].args[2]) }

\* the declarators with an initializer, never reassigned, with a pure
\* initializer, that `name` is bound to in one of the scopes
PureConstants(scopes, name) ==
  { bd \in UNION {OwnBindings(input, sc, name) : sc \in scopes} :
      bd.path = "VariableDeclarator" /\ bd.init /\ bd.constant /\ bd.pure }

ByName(s, ref) ==
  \/ /\ \A sc \in ScopesUp(ScopeOf(s)) : OwnBindings(input, sc, ref.name) = {}
     /\ ref.name \in ALLOWED_IDENTIFIERS
  \/ TestMockPrefix(ref.name)
  \/ TestCoverage(ref.name)

\* The free-variable rule, with the scopes case (d) looks for the declarator
\* in: an identifier is accepted when it is bound inside the factory, or by
\* its name (a, b, c), or as a pure constant (d); declarators are marked in
\* case (d) alone; the first identifier that is not accepted is the one the
\* OutOfScopeReference error names.
FreeVariableRule(Scopes(_)) ==
  \A s \in MockWithFactory :
    LET refs == s.expr.links[1].args[2].refs
        accepted(i) == \/ refs[i].inner
                       \/ ByName(s, refs[i])
                       \/ PureConstants(Scopes(s), refs[i].name) # {}
        byConstant == { i \in 1..Len(refs) : ~refs[i].inner /\ ~ByName(s, refs[i]) }
        rejected == { i \in 1..Len(refs) : ~accepted(i) }
        marked == { m[2] : m \in {mm \in marks : mm[1] = s.id} }
    IN  IF rejected = {}
        THEN /\ thrower # s.id
             /\ marked = UNION { {bd.id : bd \in PureConstants(Scopes(s), refs[i].name)} :
                                 i \in byConstant }
        ELSE /\ thrower = s.id
             /\ error = [kind |-> "OutOfScopeReference",
                         name |-> refs[CHOOSE i \in rejected : \A j \in rejected : i <= j].name]
             /\ marked \subseteq
                  UNION { {bd.id : bd \in PureConstants(Scopes(s), refs[i].name)} :
                          i \in byConstant }

\* C5 as stated: case (d) is any declarator the identifier is bound to,
\* whatever scope around the call holds it.
C5_AnyScope == FreeVariableRule(LAMBDA s : ScopesUp(ScopeOf(s)))

\* C5 as amended: case (d) is a declarator bound in the scope of the call
\* itself; a pure constant of a scope further out is rejected.
C5_CallScope == FreeVariableRule(LAMBDA s : {ScopeOf(s)})

\* C5 happens: `const x = 1; jest.mock('m', () => [x, require])` was accepted
\* and x, alone, was marked.
C5_Witness ==
  /\ pc = "done"
  /\ run = 1
  /\ \E s \in MockWithFactory :
       /\ s.expr.links[1].args[2].refs = <<Ref(NameX, FALSE), Ref(NameRequire, FALSE)>>
       /\ s.id \in rewritten
       /\ marks = {<<s.id, 11>>}

=============================================================================
